---- MODULE Spec2Model ----
(***************************************************************************)
(* harvest-to-jira: the enrichment pipeline of src/index.ts (run) over the *)
(* stages of src/util.ts, as one state machine.                            *)
(*                                                                         *)
(* The pipeline is a chain of async generators driven by reduce(): every   *)
(* stage pulls one item from the stage above it, so one logical thread     *)
(* walks one record at a time through the stages.  pc is the position of   *)
(* that thread; a position ending in "_wait" is an awaited HTTP request.   *)
(* Remote services answer nondeterministically (success or failure).       *)
(*                                                                         *)
(* Text is modelled as a sequence of one-character strings so that         *)
(* String.includes, template interpolation of numbers and the Jira key     *)
(* regular expression are computed, not assumed.                           *)
(* Optional values (T | undefined) are sequences of length 0 or 1.         *)
(***************************************************************************)
EXTENDS Integers, Sequences, FiniteSets, TLC

----------------------------------------------------------------------------
(* Bounds of the model *)

\* listing requests counted exactly up to this number (the counter saturates)
MaxListingRequests == 3

\* records emitted by the source that the history variable remembers
MaxYielded == 4

\* work logs the remote issue tracker stores per issue before it refuses more
MaxWorkLogs == 2

\* work-log creations counted exactly per entry id (the counter saturates)
MaxCreated == 2

\* work logs one page of the remote work-log listing holds (maxResults)
WorkLogPageSize == 1

\* largest fold total that is counted exactly, in quarters of an hour (it saturates)
MaxTotal == 8

\* timezone lookups counted exactly per run (the counter saturates)
MaxLookups == 3

\* the last day that can be chosen at the prompt; days are numbered so that day 0
\* is a Sunday, and the first day that can be chosen is day 7
LastDay == 20

----------------------------------------------------------------------------
(* Program constants *)

\* per_page: 100 in the listing request parameters
PER_PAGE == 100

\* let page = 1
FIRST_PAGE == 1

TZ_AMERICA_NEW_YORK == "America/New_York"

\* the literal part of the comment text `Harvest time entry ID: ${harvestId}`
COMMENT_PREFIX ==
  << "H","a","r","v","e","s","t"," ","t","i","m","e"," ",
     "e","n","t","r","y"," ","I","D",":"," " >>

----------------------------------------------------------------------------
(* Optional values *)

None == << >>
Some(x) == << x >>
IsSome(o) == Len(o) > 0
Get(o) == o[1]

----------------------------------------------------------------------------
(* Text helpers *)

DIGITS == << "0","1","2","3","4","5","6","7","8","9" >>

IsDigit(c) == \E i \in 1..10 : DIGITS[i] = c

\* `${n}` for a non-negative integer n: its decimal digits
RECURSIVE Decimal(_)
Decimal(n) ==
  IF n < 10 THEN << DIGITS[n + 1] >>
  ELSE Decimal(n \div 10) \o << DIGITS[(n % 10) + 1] >>

\* String.prototype.includes
Includes(text, s) ==
  \E i \in 1..(Len(text) - Len(s) + 1) : SubSeq(text, i, i + Len(s) - 1) = s

\* whether text, read from position i, starts with s
StartsWithAt(text, i, s) ==
  /\ i + Len(s) - 1 <= Len(text)
  /\ SubSeq(text, i, i + Len(s) - 1) = s

\* the end of the longest run of digits that starts at position i (i - 1 if none)
RECURSIVE DigitsEnd(_, _)
DigitsEnd(text, i) ==
  IF i <= Len(text) /\ IsDigit(text[i]) THEN DigitsEnd(text, i + 1) ELSE i - 1

\* every non-overlapping match of the pattern (<key>\-[0-9]+), left to right,
\* as the loop over RegExp.exec with the "g" flag collects them
RECURSIVE ScanMatches(_, _, _)
ScanMatches(text, key, i) ==
  IF i > Len(text) THEN << >>
  ELSE LET from == i + Len(key) + 1
           to   == DigitsEnd(text, from)
       IN IF StartsWithAt(text, i, key \o << "-" >>) /\ to >= from
          THEN << SubSeq(text, i, to) >> \o ScanMatches(text, key, to + 1)
          ELSE ScanMatches(text, key, i + 1)

JiraKeyMatches(notes, jiraProjectKey) ==
  ScanMatches(IF IsSome(notes) THEN Get(notes) ELSE << >>, jiraProjectKey, 1)

----------------------------------------------------------------------------
(* Work logs and the duplicate scan *)

TextNode(text) == [type |-> "text", text |-> text]
EmojiNode == [type |-> "emoji", text |-> << >>]
\* a node that is not of type "text" but carries a text property
OtherNode(text) == [type |-> "mention", text |-> text]

Paragraph(nodes) == [content |-> nodes]
WorkLogOf(paragraphs) == [comment |-> Some([content |-> paragraphs])]
WorkLogNoComment == [comment |-> None]

\* the texts one work log contributes to allComments:
\* comment?.content?.flatMap(p => p.content?.flatMap(t => t.type === "text" ? t.text : undefined)),
\* after the filter on Boolean(v) (undefined and "" are dropped)
RECURSIVE NodeTexts(_)
NodeTexts(nodes) ==
  IF nodes = << >> THEN << >>
  ELSE LET t == Head(nodes)
       IN (IF t.type = "text" /\ Len(t.text) > 0 THEN << t.text >> ELSE << >>)
          \o NodeTexts(Tail(nodes))

RECURSIVE ParagraphTexts(_)
ParagraphTexts(paragraphs) ==
  IF paragraphs = << >> THEN << >>
  ELSE NodeTexts(Head(paragraphs).content) \o ParagraphTexts(Tail(paragraphs))

RECURSIVE AllComments(_)
AllComments(workLogs) ==
  IF workLogs = << >> THEN << >>
  ELSE (IF IsSome(Head(workLogs).comment)
        THEN ParagraphTexts(Get(Head(workLogs).comment).content)
        ELSE << >>)
       \o AllComments(Tail(workLogs))

hasExistingWorkLog(workLogs, harvestId) ==
  LET allComments == AllComments(workLogs)
  IN \E i \in 1..Len(allComments) : Includes(allComments[i], Decimal(harvestId))

\* faulty variant of RequestComment: the id is left out of the comment text
RequestCommentWithoutId(harvestId) ==
  WorkLogOf(<< Paragraph(<< TextNode(COMMENT_PREFIX) >>) >>)

\* the comment of the request body that logTimeEntriesToJira builds
RequestComment(harvestId) ==
  WorkLogOf(<< Paragraph(<< TextNode(COMMENT_PREFIX \o Decimal(harvestId)) >>) >>)

----------------------------------------------------------------------------
(* The inputs of a run: configuration, listing and remote state *)

\* ProjectConfig: a section of config.projects (Partial: a field may be absent)
ProjectF ==
  [harvestId |-> 10, jiraProjectKey |-> Some(<< "F" >>), atlassianDomain |-> "lwd",
   atlassianAccountEmail |-> Some("a@lwd")]
ProjectG ==
  [harvestId |-> 20, jiraProjectKey |-> Some(<< "G" >>), atlassianDomain |-> "postc",
   atlassianAccountEmail |-> Some("a@postc")]
\* a second section for Harvest project 10
ProjectFDup ==
  [harvestId |-> 10, jiraProjectKey |-> Some(<< "G" >>), atlassianDomain |-> "postc",
   atlassianAccountEmail |-> Some("a@postc")]
\* a section without its jiraProjectKey
ProjectNoKey ==
  [harvestId |-> 30, jiraProjectKey |-> None, atlassianDomain |-> "lwd",
   atlassianAccountEmail |-> Some("a@lwd")]

\* a section without its atlassianAccountEmail
ProjectNoEmail ==
  [harvestId |-> 30, jiraProjectKey |-> Some(<< "F" >>), atlassianDomain |-> "lwd",
   atlassianAccountEmail |-> None]

\* Config: user.harvestUserId is optional
ConfigWithUser ==
  [user |-> [harvestUserId |-> Some(7)],
   projects |-> << ProjectF, ProjectG, ProjectNoKey >>]
ConfigAnyUser ==
  [user |-> [harvestUserId |-> None],
   projects |-> << ProjectF, ProjectFDup, ProjectG, ProjectNoEmail >>]

Configs == { ConfigWithUser, ConfigAnyUser }

\* HarvestTimeEntry; rounded_hours is kept in quarters of an hour
TimeEntry(id, closed, notes, projectId, hours, userId) ==
  [id |-> id, is_closed |-> closed, notes |-> notes, project |-> [id |-> projectId],
   rounded_hours |-> hours, user |-> [id |-> userId]]

NotesF1 == Some(<< "F", "-", "1" >>)
\* "F-2 and F-1": two keys
NotesF2F1 == Some(<< "F", "-", "2", " ", "F", "-", "1" >>)
NotesG1 == Some(<< "x", "G", "-", "1", "2" >>)
NotesNoKey == Some(<< "F", "-", "x" >>)

E1  == TimeEntry(1, TRUE, NotesF1, 10, 3, 7)
E12 == TimeEntry(12, TRUE, NotesF1, 10, 1, 7)
E2  == TimeEntry(2, TRUE, NotesF2F1, 10, 2, 7)
NotesF2 == Some(<< "F", "-", "2" >>)
\* not closed, and of a user other than the one ConfigWithUser expects
EOpen == TimeEntry(3, FALSE, NotesF2, 10, 2, 8)
EUnmatched == TimeEntry(4, TRUE, NotesF1, 99, 3, 7)
EOtherUser == TimeEntry(5, TRUE, NotesF2, 10, 4, 8)
ENoNotes == TimeEntry(6, TRUE, None, 10, 2, 7)
ENoKey == TimeEntry(8, TRUE, NotesNoKey, 10, 2, 7)
EG == TimeEntry(7, TRUE, NotesG1, 20, 4, 7)
EBadSection == TimeEntry(9, TRUE, NotesF1, 30, 2, 7)

EntryIds == { 1, 2, 3, 4, 5, 6, 7, 8, 9, 12 }

\* the next_page indicator of a listing response: a page number, null, or no field
NextPage(n) == [kind |-> "number", value |-> n]
NextPageNull == [kind |-> "null", value |-> 0]
NextPageAbsent == [kind |-> "absent", value |-> 0]

\* HarvestTimeEntriesPage
Page(entries, next) == [time_entries |-> entries, next_page |-> next]

\* A listing is what the remote holds for the window: its pages in order.
\* Page k of a well-formed listing reports next_page k + 1, the last one null.
Listings ==
  { \* entries of two projects on two Jira sites
    << Page(<< E1, EOpen, EG >>, NextPageNull) >>,
    << Page(<< EOtherUser, ENoNotes, E2 >>, NextPageNull) >>,
    << Page(<< ENoKey, EBadSection, E1 >>, NextPageNull) >>,
    << Page(<< >>, NextPageNull) >>,
    << Page(<< E1, E12 >>, NextPage(2)), Page(<< EG >>, NextPageNull) >>,
    << Page(<< EUnmatched, E2 >>, NextPage(2)), Page(<< EG, E1 >>, NextPage(3)),
       Page(<< EOpen >>, NextPageNull) >>,
    \* a last page whose body carries no next_page field
    << Page(<< E1 >>, NextPageAbsent) >> }

\* all entries of a listing, in page order
RECURSIVE Flatten(_)
Flatten(pages) ==
  IF pages = << >> THEN << >>
  ELSE Head(pages).time_entries \o Flatten(Tail(pages))

KeyF1 == << "F", "-", "1" >>
KeyF2 == << "F", "-", "2" >>
KeyG1 == << "G", "-", "1" >>
KeyG12 == << "G", "-", "1", "2" >>
IssueKeys == { KeyF1, KeyF2, KeyG1, KeyG12 }

NoWorkLogs == [k \in IssueKeys |-> << >>]

\* the work logs the issue tracker holds when the first run starts
InitialWorkLogs ==
  { NoWorkLogs,
    \* entry 1 was logged to F-1 by an earlier run
    [NoWorkLogs EXCEPT ![KeyF1] = << RequestComment(1) >>],
    \* F-1 holds a work log without comment and the work log of entry 12
    [NoWorkLogs EXCEPT ![KeyF1] = << WorkLogNoComment, RequestComment(12) >>],
    \* F-2 holds a comment naming 2 in a node that is not a text node, and 35 in
    \* a text node (its text contains the ids 3 and 5)
    [NoWorkLogs EXCEPT ![KeyF2] =
       << WorkLogOf(<< Paragraph(<< EmojiNode, OtherNode(Decimal(2)) >>),
                       Paragraph(<< TextNode(Decimal(35)) >>) >>) >>] }

\* the time zone the assignable-user search of each Jira site reports for the account
RemoteTimeZone(domain) == IF domain = "lwd" THEN "Europe/Berlin" ELSE "Asia/Tokyo"

Min(a, b) == IF a < b THEN a ELSE b

----------------------------------------------------------------------------
(* The export window: run(), from the answer of the date prompt *)

\* the offsets from UTC, in hours, of the machine's time zone
UtcOffsets == -12..14

\* responses.week: the Date the prompt returns, which is midnight, in the machine's
\* time zone, of the chosen calendar day (the prompt starts from atStartOfDay() and
\* only its date fields are edited)
Weeks == [day : 7..LastDay, offset : UtcOffsets]

\* the default answer on a machine that runs on UTC: a Monday
DefaultWeek == [day |-> 8, offset |-> 0]

\* responses.week.toISOString().split("T")[0], parsed by LocalDate.parse: the
\* calendar day, in UTC, of the instant
IsoDatePart(w) == (w.day * 24 - w.offset) \div 24

\* TemporalAdjusters.previousOrSame(DayOfWeek.SUNDAY)
PreviousOrSameSunday(day) == day - (day % 7)

AtStartOfDay(day) == [day |-> day, second |-> 0]

\* LocalDateTime.minusSeconds(1)
MinusOneSecond(t) ==
  IF t.second = 0 THEN [day |-> t.day - 1, second |-> 86399]
  ELSE [day |-> t.day, second |-> t.second - 1]

\* the timeFloor and timeCeiling handed to getHarvestTimeEntries
Window(w) ==
  LET dateJoda == IsoDatePart(w)
      sundayBefore == PreviousOrSameSunday(dateJoda)
      sundayAfter == sundayBefore + 7
  IN [timeFloor |-> AtStartOfDay(sundayBefore),
      timeCeiling |-> MinusOneSecond(AtStartOfDay(sundayAfter))]

----------------------------------------------------------------------------
(* State *)

VARIABLES
  config,         \* the Config loaded before the pipeline starts
  dryRun,         \* responses.dryRun
  week,           \* responses.week: the answer of the date prompt
  window,         \* the export window computed from it (optional)
  listing,        \* remote: the pages of the time-entry listing for the window
  jiraWorkLogs,   \* remote: the work logs of every issue, in listing order
  run,            \* 1 or 2: which execution of run() this is
  pc,             \* where the single thread of the pipeline stands
  request,        \* the HTTP request awaiting its response, if any
  page,           \* getHarvestTimeEntries: let page
  requestMore,    \* getHarvestTimeEntries: let requestMore
  pageEntries,    \* getHarvestTimeEntries: entries of the current page not yet yielded
  timezone,       \* enrichWithUserTz: let timezone (optional)
  startAt,        \* enrichWithJiraWorkLogs: let startAt
  allWorkLogs,    \* enrichWithJiraWorkLogs: const allWorkLogs
  cur,            \* the record travelling through the stages (optional)
  total,          \* reduce: the accumulator
  diags,          \* what the logger received for the current record
  listingRequests,\* history: listing requests issued in this run
  lastNextPage,   \* history: next_page of the latest listing response of this run
  yielded,        \* history: ids of the entries the source yielded in this run
  dupSeen,        \* history: ids of the records whose workLogs named their id, this run
  created,        \* history: work logs created per entry id, over both runs
  accepted,       \* history: hours of the records canLogItemToJira accepted, this run
  tzResolved,     \* history: a timezone lookup of this run returned a user
  tzLookups,      \* history: timezone lookups issued in this run
  inFlight,       \* history: HTTP requests sent and not yet answered
  outcome,        \* history: how the latest fetch made for the current record ended
  posts           \* history: work-log POSTs issued for the current record

vars ==
  << config, dryRun, week, window, listing, jiraWorkLogs, run, pc, request, page, requestMore,
     pageEntries, timezone, startAt, allWorkLogs, cur, total, diags,
     listingRequests, lastNextPage, yielded, dupSeen, created, accepted,
     tzResolved, tzLookups, inFlight, outcome, posts >>

inputs == << config, dryRun, week, window, listing >>
sourceLocals == << page, requestMore, pageEntries >>
workLogLocals == << startAt, allWorkLogs >>
history ==
  << listingRequests, lastNextPage, yielded, dupSeen, created, accepted, tzResolved,
     tzLookups >>

item == Get(cur)

NoRequest ==
  [kind |-> "none", domain |-> "", page |-> 0, per_page |-> 0, startAt |-> 0,
   key |-> << >>, harvestId |-> 0]
ListingRequest(p) == [NoRequest EXCEPT !.kind = "listing", !.page = p, !.per_page = PER_PAGE]
TimezoneRequest(d) == [NoRequest EXCEPT !.kind = "timezone", !.domain = d]
IssueRequest(d, k) == [NoRequest EXCEPT !.kind = "issue", !.domain = d, !.key = k]
WorkLogsRequest(d, k, s) ==
  [NoRequest EXCEPT !.kind = "worklogs", !.domain = d, !.key = k, !.startAt = s]
PostRequest(d, k, id) ==
  [NoRequest EXCEPT !.kind = "post", !.domain = d, !.key = k, !.harvestId = id]

NextPageNone == [kind |-> "none", value |-> 0]

Diag(level, event, projectId) == [level |-> level, event |-> event, projectId |-> projectId]

\* the state run() starts from, over the given remote state
StartOfRun ==
  /\ request = NoRequest
  /\ page = FIRST_PAGE
  /\ requestMore = FALSE
  /\ pageEntries = << >>
  /\ timezone = None
  /\ startAt = 0
  /\ allWorkLogs = << >>
  /\ cur = None
  /\ total = 0
  /\ diags = << >>
  /\ listingRequests = 0
  /\ lastNextPage = NextPageNone
  /\ yielded = << >>
  /\ dupSeen = {}
  /\ accepted = 0
  /\ tzResolved = FALSE
  /\ tzLookups = 0
  /\ inFlight = 0
  /\ outcome = "none"
  /\ posts = 0

Init ==
  /\ config \in Configs
  /\ dryRun \in BOOLEAN
  /\ listing \in Listings
  /\ jiraWorkLogs \in InitialWorkLogs
  /\ run = 1
  /\ created = [id \in EntryIds |-> 0]
  /\ week = DefaultWeek
  /\ window = Some(Window(week))
  /\ pc = "source"
  /\ StartOfRun

\* the state in which run() has the answers of the prompts and the config
PromptAnswered ==
  /\ config = ConfigWithUser
  /\ dryRun = TRUE
  /\ listing = << Page(<< >>, NextPageNull) >>
  /\ jiraWorkLogs = NoWorkLogs
  /\ run = 1
  /\ created = [id \in EntryIds |-> 0]
  /\ week \in Weeks
  /\ window = None
  /\ pc = "prompt"
  /\ StartOfRun

\* run() computes the window from responses.week and builds the pipeline
ComputeWindow ==
  /\ pc = "prompt"
  /\ window' = Some(Window(week))
  /\ pc' = "source"
  /\ UNCHANGED << config, dryRun, week, listing, jiraWorkLogs, run, request,
                  sourceLocals, timezone, workLogLocals, cur, total, diags, history,
                  inFlight >>
  /\ UNCHANGED << outcome, posts >>

----------------------------------------------------------------------------
(* The Pagination Source: getHarvestTimeEntries *)

\* the page the remote returns for page number k of the listing
RemotePage(pages, k) ==
  IF k \in 1..Len(pages) THEN pages[k] ELSE Page(<< >>, NextPageNull)

\* faulty variant of RequestMore: the loop condition ignores the indicator
RequestMoreAlways(next_page) == TRUE

\* requestMore = responseObj.next_page !== null
RequestMore(next_page) == next_page.kind # "null"

\* the value of `page` when the do-loop comes round again: no statement of the
\* loop assigns it
PageAfterIteration(p) == p

Saturating(n, max) == Min(n + 1, max)

AppendCapped(seq, x, max) == IF Len(seq) < max THEN Append(seq, x) ELSE seq

\* faulty variant of PageUsedUp: the next page is fetched ahead of its use
PageUsedUpEager(entries) == TRUE

\* yield* map(...) returns, and the loop condition is reached, only when the
\* consumer has pulled every entry of the page and asks for one more
PageUsedUp(entries) == entries = << >>

\* the do-loop issues its fetch: on the first pull, and again when the current
\* page is used up and requestMore is set
RequestListing ==
  /\ \/ pc = "source"
     \/ pc = "pull" /\ PageUsedUp(pageEntries) /\ requestMore
  /\ pc' = "listing_wait"
  /\ request' = ListingRequest(page)
  /\ listingRequests' = Saturating(listingRequests, MaxListingRequests)
  /\ UNCHANGED << inputs, jiraWorkLogs, run, sourceLocals, timezone, workLogLocals,
                  cur, total, diags, lastNextPage, yielded, dupSeen, created,
                  accepted, tzResolved, tzLookups >>
  /\ inFlight' = inFlight + 1
  /\ UNCHANGED << outcome, posts >>

\* the response arrives and parses: its entries are what yield* will hand out
ListingResponds ==
  /\ pc = "listing_wait"
  /\ LET responseObj == RemotePage(listing, request.page)
     IN /\ requestMore' = RequestMore(responseObj.next_page)
        /\ pageEntries' = responseObj.time_entries
        /\ lastNextPage' = responseObj.next_page
  /\ page' = PageAfterIteration(page)
  /\ request' = NoRequest
  /\ pc' = "pull"
  /\ UNCHANGED << inputs, jiraWorkLogs, run, timezone, workLogLocals, cur, total,
                  diags, listingRequests, yielded, dupSeen, created,
                  accepted, tzResolved, tzLookups >>
  /\ inFlight' = inFlight - 1
  /\ outcome' = "ok"
  /\ UNCHANGED posts

\* faulty variant of AfterListingFailure: the failure is swallowed and the loop ends
AfterListingFailureSwallowed == "pull"

\* nothing catches what fetch, response.json() or yield* throws in the generator
AfterListingFailure == "aborted"

\* fetch rejects, response.json() throws, or the body has no time_entries to
\* iterate: the generator throws, and the exception travels down through every
\* stage and out of run()
ListingFails ==
  /\ pc = "listing_wait"
  /\ request' = NoRequest
  /\ pc' = AfterListingFailure
  /\ UNCHANGED << inputs, jiraWorkLogs, run, sourceLocals, timezone, workLogLocals,
                  cur, total, diags, history >>
  /\ inFlight' = inFlight - 1
  /\ outcome' = "rejected"
  /\ UNCHANGED posts

NewItem(timeEntry) ==
  [timeEntry |-> timeEntry, config |-> config, projectConfig |-> None,
   userTz |-> None, jiraIssue |-> None, workLogs |-> None]

\* faulty variant of PullPositions: a stage reads ahead while its request is awaited
PullPositionsReadAhead == { "pull", "userTz_wait" }

\* where the thread stands when the chain of for-await loops asks the source for
\* its next record: only after the consumer (reduce) has asked for one
PullPositions == { "pull" }

\* the pipeline pulls: the source yields the next entry of the current page
SourceYields ==
  /\ pc \in PullPositions
  /\ pageEntries # << >>
  /\ cur' = Some(NewItem(Head(pageEntries)))
  /\ pageEntries' = Tail(pageEntries)
  /\ yielded' = AppendCapped(yielded, Head(pageEntries).id, MaxYielded)
  /\ diags' = << >>
  /\ pc' = "projectConfig"
  /\ UNCHANGED << inputs, jiraWorkLogs, run, request, page, requestMore, timezone,
                  workLogLocals, total, listingRequests, lastNextPage, dupSeen,
                  created, accepted, tzResolved, tzLookups, inFlight >>
  /\ outcome' = "none"
  /\ posts' = 0

\* the source is exhausted: every stage returns, reduce resolves with the total
SourceEnds ==
  /\ pc = "pull"
  /\ pageEntries = << >>
  /\ ~requestMore
  /\ pc' = "done"
  /\ UNCHANGED << inputs, jiraWorkLogs, run, request, sourceLocals, timezone,
                  workLogLocals, cur, total, diags, history >>
  /\ UNCHANGED inFlight
  /\ UNCHANGED << outcome, posts >>

\* run() is executed again over the same window, on the remote state left behind
StartSecondRun ==
  /\ run = 1
  /\ pc \in { "done", "aborted" }
  /\ run' = 2
  /\ pc' = "source"
  /\ request' = NoRequest
  /\ page' = FIRST_PAGE
  /\ requestMore' = FALSE
  /\ pageEntries' = << >>
  /\ timezone' = None
  /\ startAt' = 0
  /\ allWorkLogs' = << >>
  /\ cur' = None
  /\ total' = 0
  /\ diags' = << >>
  /\ listingRequests' = 0
  /\ lastNextPage' = NextPageNone
  /\ yielded' = << >>
  /\ dupSeen' = {}
  /\ accepted' = 0
  /\ tzResolved' = FALSE
  /\ tzLookups' = 0
  /\ inFlight' = 0
  /\ outcome' = "none"
  /\ posts' = 0
  /\ UNCHANGED << inputs, jiraWorkLogs, created >>

----------------------------------------------------------------------------
(* Stage 1: enrichWithProjectConfig, and the filter on Boolean(item.projectConfig) *)

\* faulty variant of FindProjectConfig: the predicate of find accepts any section
FindAnySection(projects, projectId) ==
  IF projects = << >> THEN None ELSE Some(Head(projects))

\* faulty variant of FindProjectConfig: the last matching section is taken
RECURSIVE FindLastProjectConfig(_, _)
FindLastProjectConfig(projects, projectId) ==
  IF projects = << >> THEN None
  ELSE LET later == FindLastProjectConfig(Tail(projects), projectId)
       IN IF IsSome(later) THEN later
          ELSE IF Head(projects).harvestId = projectId THEN Some(Head(projects))
          ELSE None

\* Array.prototype.find: the first section whose harvestId is the project id
RECURSIVE FindProjectConfig(_, _)
FindProjectConfig(projects, projectId) ==
  IF projects = << >> THEN None
  ELSE IF Head(projects).harvestId = projectId THEN Some(Head(projects))
  ELSE FindProjectConfig(Tail(projects), projectId)

EnrichWithProjectConfig ==
  /\ pc = "projectConfig"
  /\ LET project == item.timeEntry.project
         projectConfig == FindProjectConfig(item.config.projects, project.id)
     IN /\ diags' = IF ~IsSome(projectConfig)
                    THEN Append(diags, Diag("info", "unrecognized_project", Some(project.id)))
                    ELSE diags
        /\ cur' = Some([item EXCEPT !.projectConfig = projectConfig])
  /\ pc' = "filterProjectConfig"
  /\ UNCHANGED << inputs, jiraWorkLogs, run, request, sourceLocals, timezone,
                  workLogLocals, total, history >>
  /\ UNCHANGED inFlight
  /\ UNCHANGED << outcome, posts >>

\* filter((item) => Boolean(item.projectConfig))
HasProjectConfig(it) == IsSome(it.projectConfig)

FilterProjectConfig ==
  /\ pc = "filterProjectConfig"
  /\ pc' = IF HasProjectConfig(item) THEN "userTz" ELSE "pull"
  /\ UNCHANGED << inputs, jiraWorkLogs, run, request, sourceLocals, timezone,
                  workLogLocals, cur, total, diags, history >>
  /\ UNCHANGED inFlight
  /\ UNCHANGED << outcome, posts >>

----------------------------------------------------------------------------
(* Stage 2: enrichWithUserTz *)

\* faulty variant of TimezoneOrDefault: the fallback is forgotten
TimezoneOrUndefined(tz) == tz

\* timezone ?? TZ_AMERICA_NEW_YORK
TimezoneOrDefault(tz) == IF IsSome(tz) THEN tz ELSE Some(TZ_AMERICA_NEW_YORK)

\* faulty variant of Memoized: the memo is never consulted
MemoizedNever(tz) == FALSE

\* if (timezone)
Memoized(tz) == IsSome(tz)

\* assert(projectConfig.jiraProjectKey); assert(projectConfig.atlassianAccountEmail)
UserTzAssertionsHold(projectConfig) ==
  /\ IsSome(projectConfig.jiraProjectKey)
  /\ IsSome(projectConfig.atlassianAccountEmail)

\* faulty variant of AfterAssertionFailure: only the record is dropped
AfterAssertionFailureDropped == "pull"

\* assert throws an AssertionError: it leaves the generator, the stages that
\* consume it, reduce and run()
AfterAssertionFailure == "aborted"

\* the body of the for-await loop up to its first await: a failed assertion is
\* thrown out of the generator and out of run(); a memoized timezone is used at
\* once; otherwise the lookup is fetched
EnrichWithUserTz ==
  /\ pc = "userTz"
  /\ IF ~UserTzAssertionsHold(Get(item.projectConfig))
     THEN /\ pc' = AfterAssertionFailure
          /\ UNCHANGED << cur, request, inFlight, tzLookups >>
     ELSE IF Memoized(timezone)
     THEN /\ cur' = Some([item EXCEPT !.userTz = timezone])
          /\ pc' = "jiraIssue"
          /\ UNCHANGED << request, inFlight, tzLookups >>
     ELSE /\ request' = TimezoneRequest(Get(item.projectConfig).atlassianDomain)
          /\ pc' = "userTz_wait"
          /\ inFlight' = inFlight + 1
          /\ tzLookups' = Saturating(tzLookups, MaxLookups)
          /\ UNCHANGED cur
  /\ UNCHANGED << inputs, jiraWorkLogs, run, sourceLocals, timezone, workLogLocals,
                  total, diags, listingRequests, lastNextPage, yielded, dupSeen,
                  created, accepted, tzResolved >>
  /\ UNCHANGED << outcome, posts >>

\* faulty variant of MemoAfterFailure: the fallback is stored as the memo
MemoAfterFailureCached(tz) == Some(TZ_AMERICA_NEW_YORK)

\* neither failure branch assigns timezone
MemoAfterFailure(tz) == tz

\* !response.ok
TimezoneLookupFails ==
  /\ pc = "userTz_wait"
  /\ diags' = Append(diags, Diag("error", "timezone_error", None))
  /\ cur' = Some([item EXCEPT !.userTz = TimezoneOrDefault(timezone)])
  /\ request' = NoRequest
  /\ pc' = "jiraIssue"
  /\ timezone' = MemoAfterFailure(timezone)
  /\ UNCHANGED << inputs, jiraWorkLogs, run, sourceLocals, workLogLocals,
                  total, history >>
  /\ inFlight' = inFlight - 1
  /\ outcome' = "non_ok"
  /\ UNCHANGED posts

\* the search matched no user
TimezoneLookupEmpty ==
  /\ pc = "userTz_wait"
  /\ diags' = Append(diags, Diag("warn", "timezone_no_user", None))
  /\ cur' = Some([item EXCEPT !.userTz = TimezoneOrDefault(timezone)])
  /\ request' = NoRequest
  /\ pc' = "jiraIssue"
  /\ timezone' = MemoAfterFailure(timezone)
  /\ UNCHANGED << inputs, jiraWorkLogs, run, sourceLocals, workLogLocals,
                  total, history >>
  /\ inFlight' = inFlight - 1
  /\ outcome' = "empty"
  /\ UNCHANGED posts

\* timezone = user.timeZone
TimezoneLookupSucceeds ==
  /\ pc = "userTz_wait"
  /\ LET user == [timeZone |-> RemoteTimeZone(request.domain)]
     IN /\ timezone' = Some(user.timeZone)
        /\ cur' = Some([item EXCEPT !.userTz = TimezoneOrDefault(Some(user.timeZone))])
  /\ request' = NoRequest
  /\ pc' = "jiraIssue"
  /\ tzResolved' = TRUE
  /\ inFlight' = inFlight - 1
  /\ UNCHANGED << inputs, jiraWorkLogs, run, sourceLocals, workLogLocals, total,
                  diags, listingRequests, lastNextPage, yielded, dupSeen, created,
                  accepted, tzLookups >>
  /\ outcome' = "ok"
  /\ UNCHANGED posts

\* fetch rejects (the site is unreachable): nothing in the stage or in run() catches
\* the exception
TimezoneFetchRejects ==
  /\ pc = "userTz_wait"
  /\ request' = NoRequest
  /\ pc' = "aborted"
  /\ UNCHANGED << inputs, jiraWorkLogs, run, sourceLocals, timezone, workLogLocals,
                  cur, total, diags, history >>
  /\ inFlight' = inFlight - 1
  /\ outcome' = "rejected"
  /\ UNCHANGED posts

----------------------------------------------------------------------------
(* Stage 3: enrichWithJiraIssue, and the filter on Boolean(item.jiraIssue) *)

\* faulty variant of ChosenKey: the last match is taken
ChosenKeyLast(matches) == matches[Len(matches)]

\* const jiraKey = matches.length < 1 ? null : matches[0], for a non-empty matches
ChosenKey(matches) == matches[1]

EnrichWithJiraIssue ==
  /\ pc = "jiraIssue"
  /\ LET matches == JiraKeyMatches(item.timeEntry.notes,
                                   Get(Get(item.projectConfig).jiraProjectKey))
         multiple == IF Len(matches) > 1
                     THEN << Diag("debug", "multiple_keys", None) >> ELSE << >>
     IN IF Len(matches) < 1
        THEN /\ diags' = diags \o multiple \o << Diag("warn", "key_missing", None) >>
             /\ pc' = "filterJiraIssue"
             /\ UNCHANGED << request, inFlight >>
        ELSE /\ diags' = diags \o multiple
             /\ request' = IssueRequest(Get(item.projectConfig).atlassianDomain,
                                        ChosenKey(matches))
             /\ pc' = "jiraIssue_wait"
             /\ inFlight' = inFlight + 1
  /\ UNCHANGED << inputs, jiraWorkLogs, run, sourceLocals, timezone, workLogLocals,
                  cur, total, history >>
  /\ UNCHANGED << outcome, posts >>

\* faulty variant of WithJiraIssue: the earlier fields are not spread into the result
WithJiraIssueOnly(it, jiraIssue) ==
  [it EXCEPT !.jiraIssue = jiraIssue, !.userTz = None]

\* yield { ...item, jiraIssue }
WithJiraIssue(it, jiraIssue) == [it EXCEPT !.jiraIssue = jiraIssue]

\* faulty variant of IssueAfterFailure: a failed fetch leaves a placeholder issue
IssueAfterFailurePlaceholder(key) == Some([key |-> key])

\* getJiraIssue returns null, and (null ?? undefined) leaves jiraIssue undefined
IssueAfterFailure(key) == None

\* getJiraIssue returns the issue
IssueFetchSucceeds ==
  /\ pc = "jiraIssue_wait"
  /\ request.key \in IssueKeys
  /\ cur' = Some(WithJiraIssue(item, Some([key |-> request.key])))
  /\ request' = NoRequest
  /\ pc' = "filterJiraIssue"
  /\ UNCHANGED << inputs, jiraWorkLogs, run, sourceLocals, timezone, workLogLocals,
                  total, diags, history >>
  /\ inFlight' = inFlight - 1
  /\ outcome' = "ok"
  /\ UNCHANGED posts

\* getJiraIssue logs the error and returns null; the stage warns
IssueFetchFails ==
  /\ pc = "jiraIssue_wait"
  /\ diags' = diags \o << Diag("error", "issue_fetch_error", None),
                          Diag("warn", "issue_not_found", None) >>
  /\ cur' = Some(WithJiraIssue(item, IssueAfterFailure(request.key)))
  /\ request' = NoRequest
  /\ pc' = "filterJiraIssue"
  /\ UNCHANGED << inputs, jiraWorkLogs, run, sourceLocals, timezone, workLogLocals,
                  total, history >>
  /\ inFlight' = inFlight - 1
  /\ outcome' = "non_ok"
  /\ UNCHANGED posts

\* fetch rejects inside getJiraIssue: the exception leaves the stage and run()
IssueFetchRejects ==
  /\ pc = "jiraIssue_wait"
  /\ request' = NoRequest
  /\ pc' = "aborted"
  /\ UNCHANGED << inputs, jiraWorkLogs, run, sourceLocals, timezone, workLogLocals,
                  cur, total, diags, history >>
  /\ inFlight' = inFlight - 1
  /\ outcome' = "rejected"
  /\ UNCHANGED posts

\* faulty variant of HasJiraIssue: the filter lets every record through
HasJiraIssueAlways(it) == TRUE

\* filter((item) => Boolean(item.jiraIssue))
HasJiraIssue(it) == IsSome(it.jiraIssue)

FilterJiraIssue ==
  /\ pc = "filterJiraIssue"
  /\ pc' = IF HasJiraIssue(item) THEN "workLogs" ELSE "pull"
  /\ UNCHANGED << inputs, jiraWorkLogs, run, request, sourceLocals, timezone,
                  workLogLocals, cur, total, diags, history >>
  /\ UNCHANGED inFlight
  /\ UNCHANGED << outcome, posts >>

----------------------------------------------------------------------------
(* Stage 4: enrichWithJiraWorkLogs over getWorklogs *)

\* GET /issue/{key}/worklog?startAt=s: the page of the collection that starts at
\* index s, with startAt reporting the index of the first item returned
RemoteWorkLogs(all, s) ==
  [startAt |-> s,
   worklogs |-> SubSeq(all, s + 1, Min(s + WorkLogPageSize, Len(all)))]

EnrichWithJiraWorkLogs ==
  /\ pc = "workLogs"
  /\ allWorkLogs' = << >>
  /\ startAt' = 0
  /\ request' = WorkLogsRequest(Get(item.projectConfig).atlassianDomain,
                              Get(item.jiraIssue).key, 0)
  /\ pc' = "workLogs_wait"
  /\ UNCHANGED << inputs, jiraWorkLogs, run, sourceLocals, timezone, cur, total,
                  diags, history >>
  /\ inFlight' = inFlight + 1
  /\ UNCHANGED << outcome, posts >>

\* faulty variant of ContinuesPaging: the loop goes on while pages are not empty
ContinuesPagingWhileNonEmpty(response) == response.worklogs # << >>

\* startAt = response.startAt; ... } while (startAt)
ContinuesPaging(response) == response.startAt # 0

\* a page arrives: startAt = response.startAt; push the page; while (startAt)
WorkLogsRespond ==
  /\ pc = "workLogs_wait"
  /\ LET response == RemoteWorkLogs(jiraWorkLogs[request.key], request.startAt)
         collected == allWorkLogs \o response.worklogs
     IN /\ startAt' = response.startAt
        /\ allWorkLogs' = collected
        /\ IF ContinuesPaging(response)
           THEN /\ request' = WorkLogsRequest(request.domain, request.key, response.startAt)
                /\ pc' = "workLogs_wait"
                /\ UNCHANGED << cur, inFlight >>
           ELSE /\ request' = NoRequest
                /\ cur' = Some([item EXCEPT !.workLogs = Some(collected)])
                /\ pc' = "canLog"
                /\ inFlight' = inFlight - 1
  /\ UNCHANGED << inputs, jiraWorkLogs, run, sourceLocals, timezone, total, diags,
                  history >>
  /\ outcome' = "ok"
  /\ UNCHANGED posts

\* faulty variant of AfterWorkLogsFailure: the record is dropped
AfterWorkLogsFailureDropped == "pull"

\* if (!response) { break; } leaves the do-while; the yield after it hands the
\* record to the filter on canLogItemToJira
AfterWorkLogsFailure == "canLog"

\* getWorklogs logs the error and returns null: break, and yield what was collected
WorkLogsFail ==
  /\ pc = "workLogs_wait"
  /\ diags' = Append(diags, Diag("error", "worklogs_fetch_error", None))
  /\ cur' = Some([item EXCEPT !.workLogs = Some(allWorkLogs)])
  /\ request' = NoRequest
  /\ pc' = AfterWorkLogsFailure
  /\ UNCHANGED << inputs, jiraWorkLogs, run, sourceLocals, timezone, workLogLocals,
                  total, history >>
  /\ inFlight' = inFlight - 1
  /\ outcome' = "non_ok"
  /\ UNCHANGED posts

\* fetch rejects inside getWorklogs: the exception leaves the stage and run()
WorkLogsFetchRejects ==
  /\ pc = "workLogs_wait"
  /\ request' = NoRequest
  /\ pc' = "aborted"
  /\ UNCHANGED << inputs, jiraWorkLogs, run, sourceLocals, timezone, workLogLocals,
                  cur, total, diags, history >>
  /\ inFlight' = inFlight - 1
  /\ outcome' = "rejected"
  /\ UNCHANGED posts

----------------------------------------------------------------------------
(* The business-rule filter: canLogItemToJira *)

\* faulty variant of UserMismatch: the user check is missing
UserMismatchNever(it) == FALSE

\* config.user && config.user.harvestUserId && config.user.harvestUserId !== user.id
UserMismatch(it) ==
  LET harvestUserId == it.config.user.harvestUserId
  IN /\ IsSome(harvestUserId)
     /\ Get(harvestUserId) # 0
     /\ Get(harvestUserId) # it.timeEntry.user.id

\* faulty variant of CanLogVerdict: the is_closed check is missing
CanLogVerdictIgnoringClosed(it) ==
  IF UserMismatch(it) THEN "unrecognized_user"
  ELSE IF hasExistingWorkLog(Get(it.workLogs), it.timeEntry.id) THEN "already_logged"
  ELSE "ok"

\* faulty variant of CanLogVerdict: the duplicate check comes first
CanLogVerdictDuplicateFirst(it) ==
  IF hasExistingWorkLog(Get(it.workLogs), it.timeEntry.id) THEN "already_logged"
  ELSE IF ~it.timeEntry.is_closed THEN "not_closed"
  ELSE IF UserMismatch(it) THEN "unrecognized_user"
  ELSE "ok"

\* the first check that fails, in the order of the if statements, or "ok"
CanLogVerdict(it) ==
  IF ~it.timeEntry.is_closed THEN "not_closed"
  ELSE IF UserMismatch(it) THEN "unrecognized_user"
  ELSE IF hasExistingWorkLog(Get(it.workLogs), it.timeEntry.id) THEN "already_logged"
  ELSE "ok"

\* faulty variant of canLogItemToJira: the filter lets every record through
canLogItemToJiraAlways(it) == TRUE

canLogItemToJira(it) == CanLogVerdict(it) = "ok"

CanLogLevel(verdict) == IF verdict = "unrecognized_user" THEN "warn" ELSE "info"

FilterCanLog ==
  /\ pc = "canLog"
  /\ LET verdict == CanLogVerdict(item)
     IN /\ diags' = IF verdict = "ok" THEN diags
                    ELSE Append(diags, Diag(CanLogLevel(verdict), verdict, None))
        /\ dupSeen' = IF hasExistingWorkLog(Get(item.workLogs), item.timeEntry.id)
                      THEN dupSeen \cup { item.timeEntry.id }
                      ELSE dupSeen
        /\ accepted' = IF verdict = "ok"
                       THEN Min(accepted + item.timeEntry.rounded_hours, MaxTotal)
                       ELSE accepted
  /\ pc' = IF canLogItemToJira(item) THEN "writer" ELSE "pull"
  /\ UNCHANGED << inputs, jiraWorkLogs, run, request, sourceLocals, timezone,
                  workLogLocals, cur, total, listingRequests, lastNextPage, yielded,
                  created, tzResolved, tzLookups, inFlight >>
  /\ UNCHANGED << outcome, posts >>

----------------------------------------------------------------------------
(* The Work-Log Writer: logTimeEntriesToJira (tap), and the fold of reduce *)

\* faulty variant of SkipsPost: the dry-run early return is missing
SkipsPostNever(dry) == FALSE

\* if (dryRun) { logger.debug(requestBody, ...); return; }
SkipsPost(dry) == dry

\* faulty variant of AfterPostSent: the tap callback does not await the fetch
AfterPostSentNotAwaited == "fold"

\* const response = await fetch(...): the callback is suspended until the answer
AfterPostSent == "post_wait"

LogTimeEntryToJira ==
  /\ pc = "writer"
  /\ IF SkipsPost(dryRun)
     THEN /\ diags' = Append(diags, Diag("debug", "dry_run_body", None))
          /\ pc' = "fold"
          /\ UNCHANGED << request, inFlight >>
     ELSE /\ request' = PostRequest(Get(item.projectConfig).atlassianDomain,
                                 Get(item.jiraIssue).key, item.timeEntry.id)
          /\ pc' = AfterPostSent
          /\ inFlight' = inFlight + 1
          /\ UNCHANGED diags
  /\ UNCHANGED << inputs, jiraWorkLogs, run, sourceLocals, timezone, workLogLocals,
                  cur, total, history >>
  /\ posts' = IF SkipsPost(dryRun) THEN posts ELSE posts + 1
  /\ UNCHANGED outcome

\* response.ok: the issue tracker has stored the work log
PostSucceeds ==
  /\ pc = "post_wait"
  /\ Len(jiraWorkLogs[request.key]) < MaxWorkLogs
  /\ jiraWorkLogs' = [jiraWorkLogs EXCEPT
                        ![request.key] = Append(@, RequestComment(request.harvestId))]
  /\ created' = [created EXCEPT
                   ![request.harvestId] = Saturating(@, MaxCreated)]
  /\ diags' = Append(diags, Diag("debug", "logged", None))
  /\ request' = NoRequest
  /\ pc' = "fold"
  /\ UNCHANGED << inputs, run, sourceLocals, timezone, workLogLocals, cur, total,
                  listingRequests, lastNextPage, yielded, dupSeen, accepted, tzResolved, tzLookups >>
  /\ inFlight' = inFlight - 1
  /\ outcome' = "ok"
  /\ UNCHANGED posts

\* faulty variant of AfterPostFailed: the submission is tried again
AfterPostFailedRetry == "writer"

\* if (!response.ok) { logger.error(...); return; }: the callback is over, tap
\* yields the record
AfterPostFailed == "fold"

\* !response.ok: log the error and return
PostFails ==
  /\ pc = "post_wait"
  /\ diags' = Append(diags, Diag("error", "post_failed", None))
  /\ request' = NoRequest
  /\ pc' = AfterPostFailed
  /\ UNCHANGED << inputs, jiraWorkLogs, run, sourceLocals, timezone, workLogLocals,
                  cur, total, history >>
  /\ inFlight' = inFlight - 1
  /\ outcome' = "non_ok"
  /\ UNCHANGED posts

\* fetch rejects: the exception leaves the tap callback and run(); the work log is
\* not stored
PostRejects ==
  /\ pc = "post_wait"
  /\ request' = NoRequest
  /\ pc' = "aborted"
  /\ UNCHANGED << inputs, jiraWorkLogs, run, sourceLocals, timezone, workLogLocals,
                  cur, total, diags, history >>
  /\ inFlight' = inFlight - 1
  /\ outcome' = "rejected"
  /\ UNCHANGED posts

\* faulty variant of Reducer: records are counted, not their hours
ReducerCounting(acc, it) == acc + 1

\* (acc, item) => acc + item.timeEntry.rounded_hours
Reducer(acc, it) == acc + it.timeEntry.rounded_hours

\* faulty variant of AfterFold: the record is handed to the writer a second time
AfterFoldAgain == "writer"

\* reduce asks the chain for the next record
AfterFold == "pull"

\* tap yields the item; reduce adds item.timeEntry.rounded_hours to the accumulator
Fold ==
  /\ pc = "fold"
  /\ total' = Min(Reducer(total, item), MaxTotal)
  /\ pc' = AfterFold
  /\ UNCHANGED << inputs, jiraWorkLogs, run, request, sourceLocals, timezone,
                  workLogLocals, cur, diags, history >>
  /\ UNCHANGED inFlight
  /\ UNCHANGED << outcome, posts >>

----------------------------------------------------------------------------
(* Specifications *)

Next ==
  \/ RequestListing
  \/ ListingResponds
  \/ ListingFails
  \/ SourceYields
  \/ SourceEnds
  \/ EnrichWithProjectConfig
  \/ FilterProjectConfig
  \/ EnrichWithUserTz
  \/ TimezoneLookupFails
  \/ TimezoneLookupEmpty
  \/ TimezoneLookupSucceeds
  \/ TimezoneFetchRejects
  \/ EnrichWithJiraIssue
  \/ IssueFetchSucceeds
  \/ IssueFetchFails
  \/ IssueFetchRejects
  \/ FilterJiraIssue
  \/ EnrichWithJiraWorkLogs
  \/ WorkLogsRespond
  \/ WorkLogsFail
  \/ WorkLogsFetchRejects
  \/ FilterCanLog
  \/ LogTimeEntryToJira
  \/ PostSucceeds
  \/ PostFails
  \/ PostRejects
  \/ Fold
  \/ StartSecondRun

Spec == Init /\ [][Next]_vars

\* the thread of run() is never left waiting: the event loop resumes it, and every
\* remote call is answered
LiveSpec == Spec /\ WF_vars(Next)

\* the computation of the export window alone, over every answer of the date prompt
WindowSpec == PromptAnswered /\ [][ComputeWindow]_vars

----------------------------------------------------------------------------
(* Vocabulary of the properties *)

\* the ids of a sequence of entries
RECURSIVE Ids(_)
Ids(entries) == IF entries = << >> THEN << >> ELSE << Head(entries).id >> \o Ids(Tail(entries))

IsPrefix(s, t) == Len(s) <= Len(t) /\ SubSeq(t, 1, Len(s)) = s

\* every page but the last reports a page number, the last reports null
WellFormed(pages) ==
  /\ \A k \in 1..(Len(pages) - 1) : pages[k].next_page = NextPage(k + 1)
  /\ pages[Len(pages)].next_page = NextPageNull

SinglePage(pages) == Len(pages) = 1 /\ WellFormed(pages)

\* the record is below the has-project-config filter
PastProjectFilter ==
  pc \in { "userTz", "userTz_wait", "jiraIssue", "jiraIssue_wait", "filterJiraIssue",
           "workLogs", "workLogs_wait", "canLog", "writer", "post_wait", "fold" }

\* the record is in the hands of the Work-Log Writer, or has left it for the fold
AtWriter == pc \in { "writer", "post_wait", "fold" }

\* a record is inside the chain of stages
StagePositions ==
  { "projectConfig", "filterProjectConfig", "userTz", "userTz_wait", "jiraIssue",
    "jiraIssue_wait", "filterJiraIssue", "workLogs", "workLogs_wait", "canLog",
    "writer", "post_wait", "fold" }

\* the positions of a record inside the stages, in pipeline order
StageOrder ==
  << "projectConfig", "filterProjectConfig", "userTz", "userTz_wait", "jiraIssue",
     "jiraIssue_wait", "filterJiraIssue", "workLogs", "workLogs_wait", "canLog",
     "writer", "post_wait", "fold" >>

Rank(p) == CHOOSE i \in 1..Len(StageOrder) : StageOrder[i] = p

\* the fields the stages attach to a record
EnrichedFields == { "projectConfig", "userTz", "jiraIssue", "workLogs" }

\* where the thread stands while the stage that attaches the field works
PositionsOf(field) ==
  CASE field = "projectConfig" -> { "projectConfig" }
    [] field = "userTz" -> { "userTz", "userTz_wait" }
    [] field = "jiraIssue" -> { "jiraIssue", "jiraIssue_wait" }
    [] field = "workLogs" -> { "workLogs", "workLogs_wait" }

\* the thread is suspended on an HTTP request
WaitPositions ==
  { "listing_wait", "userTz_wait", "jiraIssue_wait", "workLogs_wait", "post_wait" }

\* the notes of a record as text ("" if absent) and the key prefix of its section
NotesText(it) == IF IsSome(it.timeEntry.notes) THEN Get(it.timeEntry.notes) ELSE << >>
KeyPrefix(it) == Get(Get(it.projectConfig).jiraProjectKey)

\* at position i of the text stands <prefix>-<digit>
KeyShapedAt(text, prefix, i) ==
  /\ StartsWithAt(text, i, prefix \o << "-" >>)
  /\ i + Len(prefix) + 1 <= Len(text)
  /\ IsDigit(text[i + Len(prefix) + 1])

KeyShapedPositions(text, prefix) == { i \in 1..Len(text) : KeyShapedAt(text, prefix, i) }

\* the key-shaped substring that starts furthest to the left, with all its digits
LeftmostKey(text, prefix) ==
  LET i == CHOOSE k \in KeyShapedPositions(text, prefix) :
             \A j \in KeyShapedPositions(text, prefix) : k <= j
  IN SubSeq(text, i, DigitsEnd(text, i + Len(prefix) + 1))

\* the config names an expected acting user, and the entry is of another user
ExpectsOtherUser(it) ==
  /\ IsSome(it.config.user.harvestUserId)
  /\ Get(it.config.user.harvestUserId) # it.timeEntry.user.id

\* a text node of the record's work logs contains the decimal id of its entry
NamedInWorkLogs(it) == hasExistingWorkLog(Get(it.workLogs), it.timeEntry.id)

\* no section of config.projects carries the entry's project id
Unmatched(it) ==
  \A i \in 1..Len(it.config.projects) :
    it.config.projects[i].harvestId # it.timeEntry.project.id

----------------------------------------------------------------------------
(* Properties *)

\* C1: in live mode, two runs over the same window, the second on the remote state
\* the first left, create at most one work log per time entry in total, whatever
\* the remote answers.  Stated for the listings of a single well-formed page, where
\* each entry is yielded once per run.
C1_AtMostOneWorkLogPerEntry ==
  (~dryRun /\ SinglePage(listing)) => \A id \in EntryIds : created[id] <= 1

\* C2, first half: a record whose attached workLogs hold a text node naming the
\* entry id is rejected by canLogItemToJira
DuplicateRecordRejected ==
  (pc = "canLog" /\ hasExistingWorkLog(Get(item.workLogs), item.timeEntry.id))
    => ~canLogItemToJira(item)

\* C2: once the workLogs attached to a record of an entry held a text node naming
\* the entry id, the record is rejected and no work-log POST is issued for that
\* entry in the rest of the run (over a well-formed listing)
C2_NoPostOnceDuplicateSeen ==
  WellFormed(listing) =>
    /\ DuplicateRecordRejected
    /\ request.kind = "post" => request.harvestId \notin dupSeen

\* C3: over a well-formed listing the source yields the concatenation of the pages'
\* entries in page order, each once: what it has yielded so far is always a prefix
\* of that concatenation, and all of it when the run is done
C3_YieldsConcatenationOfPages ==
  WellFormed(listing) =>
    LET all == Ids(Flatten(listing))
    IN /\ IsPrefix(yielded, all)
       /\ pc = "done" => yielded = SubSeq(all, 1, Min(Len(all), MaxYielded))

\* C4: over a well-formed listing the k-th listing request of a run asks for page
\* k, with per_page 100
C4_KthRequestAsksPageK ==
  (WellFormed(listing) /\ request.kind = "listing") =>
    /\ request.per_page = PER_PAGE
    /\ listingRequests < MaxListingRequests => request.page = listingRequests

\* C5 as stated: after a response whose next_page is null or absent no further
\* listing request is issued
C5_StopsOnNullOrAbsent ==
  lastNextPage.kind \in { "null", "absent" } => request.kind # "listing"

\* C5 as amended: after a response whose next_page is null no further listing
\* request is issued and the sequence ends once the page's entries are yielded
C5_StopsOnNull ==
  lastNextPage.kind = "null" =>
    /\ request.kind # "listing"
    /\ ~requestMore

C5_Witness ==
  /\ lastNextPage.kind = "null"
  /\ pc = "done"
  /\ yielded # << >>

\* C6: over a well-formed listing of finitely many pages the run ends
C6_RunCompletes ==
  WellFormed(listing) => <>(pc \in { "done", "aborted" })

\* C7: a record in the hands of the Work-Log Writer has projectConfig, userTz and
\* jiraIssue all present
C7_WriterRecordComplete ==
  AtWriter =>
    /\ IsSome(item.projectConfig)
    /\ IsSome(item.userTz)
    /\ IsSome(item.jiraIssue)

\* a record reaches the writer with the fallback timezone
C7_Witness ==
  /\ pc = "writer"
  /\ item.userTz = Some(TZ_AMERICA_NEW_YORK)
  /\ IsSome(item.jiraIssue)

\* C8: a record whose project id matches no section of config.projects never gets
\* past the has-project-config filter, so never to the Work-Log Writer, and once
\* enrichWithProjectConfig has handled it the logger holds exactly one diagnostic
\* for it, which names the project id
C8_UnmatchedProjectDropped ==
  (IsSome(cur) /\ Unmatched(item)) =>
    /\ ~PastProjectFilter
    /\ request.kind \notin { "timezone", "issue", "worklogs", "post" }
    /\ IF pc = "projectConfig" THEN diags = << >>
       ELSE diags = << Diag("info", "unrecognized_project",
                            Some(item.timeEntry.project.id)) >>

\* an unmatched record has been dropped by the filter
C8_Witness ==
  /\ pc = "pull"
  /\ IsSome(cur)
  /\ Unmatched(item)
  /\ Len(diags) = 1

\* C9: a record of a non-closed entry is rejected by canLogItemToJira whatever its
\* user, config and work logs, and no work-log POST is issued for it
C9_OpenEntryNeverLogged ==
  (IsSome(cur) /\ ~item.timeEntry.is_closed) =>
    /\ ~AtWriter
    /\ request.kind # "post"
    /\ created[item.timeEntry.id] = 0
    /\ pc = "canLog" => ~canLogItemToJira(item)

\* a non-closed record, also of another user and already named in the work logs,
\* has been dropped by canLogItemToJira
C9_Witness ==
  /\ pc = "pull"
  /\ IsSome(cur)
  /\ ~item.timeEntry.is_closed
  /\ IsSome(item.workLogs)
  /\ UserMismatch(item)
  /\ hasExistingWorkLog(Get(item.workLogs), item.timeEntry.id)
  /\ diags[Len(diags)] = Diag("info", "not_closed", None)

\* C10: in dry-run mode no work-log POST is issued and no work log is created; the
\* writer logs the would-be request body instead
C10_DryRunNeverPosts ==
  dryRun =>
    /\ request.kind # "post"
    /\ \A id \in EntryIds : created[id] = 0
    /\ pc = "fold" => diags[Len(diags)] = Diag("debug", "dry_run_body", None)

\* a dry run has taken an eligible record through the writer
C10_Witness ==
  /\ dryRun
  /\ pc = "fold"

\* C11: in dry-run mode every record accepted by the last filter adds its
\* rounded_hours to the total exactly once: the total is the sum of the hours of
\* the accepted records, the one still in the writer's hands counted ahead
C11_DryRunTotalCountsEligibleOnce ==
  dryRun =>
    IF pc \in { "writer", "fold" }
    THEN Min(total + item.timeEntry.rounded_hours, MaxTotal) = accepted
    ELSE total = accepted

\* a dry run has ended after folding more than one eligible record
C11_Witness ==
  /\ dryRun
  /\ pc = "done"
  /\ total > 4
  /\ total < MaxTotal

\* C12: a record that enrichWithUserTz processes causes a timezone lookup exactly
\* when no lookup of this run has succeeded yet: one lookup per record while the
\* lookups keep failing, and none after the first success
C12_LookupUntilFirstSuccess ==
  [][(pc = "userTz" /\ UserTzAssertionsHold(Get(item.projectConfig)))
       => (request'.kind = "timezone" <=> ~tzResolved)]_vars

\* the third record of a page has left enrichWithUserTz without a lookup, after the
\* lookup failed for the first record and succeeded for the second
C12_Witness ==
  /\ SinglePage(listing)
  /\ Len(yielded) = 3
  /\ pc = "jiraIssue"
  /\ tzResolved
  /\ tzLookups = 2
  /\ item.userTz = timezone

\* C13: a record enters enrichWithProjectConfig only when the consumer pulls, and
\* the record before it left the stages only by being dropped by one of the three
\* filters or by being folded into the total (or the run was aborted): no record
\* enters while another is still inside the stages
C13_StrictlySequential ==
  [][/\ pc' = "projectConfig" => pc = "pull"
     /\ (pc \in StagePositions /\ pc' \notin StagePositions)
          => \/ pc' = "aborted"
             \/ /\ pc' = "pull"
                /\ pc \in { "filterProjectConfig", "filterJiraIssue", "canLog", "fold" }]_vars

\* the second record of a run enters stage 1 after the first one was folded
C13_Witness ==
  /\ Len(yielded) = 2
  /\ pc = "projectConfig"
  /\ total > 0

\* C14: at every moment at most one HTTP request is in flight, and one is in
\* flight exactly while the thread is suspended on it
C14_OneRequestInFlight ==
  /\ inFlight <= 1
  /\ inFlight = 1 <=> pc \in WaitPositions
  /\ inFlight = 1 <=> request.kind # "none"

\* the work-log POST of the second record of a run is in flight
C14_Witness ==
  /\ inFlight = 1
  /\ request.kind = "post"
  /\ Len(yielded) = 2

\* C15 as stated: when the notes hold two or more key-shaped substrings,
\* enrichWithJiraIssue fetches the issue of the leftmost one and emits an
\* info-level diagnostic about the multiple matches
C15_LeftmostKeyWithInfo ==
  [][(pc = "jiraIssue" /\ Cardinality(KeyShapedPositions(NotesText(item), KeyPrefix(item))) >= 2)
       => /\ request' = IssueRequest(Get(item.projectConfig).atlassianDomain,
                                     LeftmostKey(NotesText(item), KeyPrefix(item)))
          /\ diags' = Append(diags, Diag("info", "multiple_keys", None))]_vars

\* C15 as amended: when the notes hold two or more key-shaped substrings,
\* enrichWithJiraIssue fetches the issue of the leftmost one only and emits a
\* debug-level diagnostic about the multiple matches
C15_LeftmostKeyWithDebug ==
  [][(pc = "jiraIssue" /\ Cardinality(KeyShapedPositions(NotesText(item), KeyPrefix(item))) >= 2)
       => /\ request' = IssueRequest(Get(item.projectConfig).atlassianDomain,
                                     LeftmostKey(NotesText(item), KeyPrefix(item)))
          /\ pc' = "jiraIssue_wait"
          /\ diags' = Append(diags, Diag("debug", "multiple_keys", None))]_vars

\* the issue F-2 is being fetched for the notes "F-2 F-1"
C15_Witness ==
  /\ pc = "jiraIssue_wait"
  /\ NotesText(item) = Get(NotesF2F1)
  /\ request.key = KeyF2
  /\ diags[Len(diags)] = Diag("debug", "multiple_keys", None)

\* C16: a record whose notes (the empty text if absent) hold no key-shaped substring
\* for the key prefix of its project section gets no issue: a warning is emitted,
\* no issue fetch is issued for it, and the has-issue filter drops it, so it never
\* reaches the work-log stage or the writer
C16_NoKeyRecordDropped ==
  (/\ IsSome(cur)
   /\ IsSome(item.projectConfig)
   /\ IsSome(Get(item.projectConfig).jiraProjectKey)
   /\ KeyShapedPositions(NotesText(item), KeyPrefix(item)) = {})
    => /\ pc \notin { "jiraIssue_wait", "workLogs", "workLogs_wait", "canLog", "writer",
                      "post_wait", "fold" }
       /\ request.kind \notin { "issue", "worklogs", "post" }
       /\ ~IsSome(item.jiraIssue)
       /\ pc = "filterJiraIssue" => diags[Len(diags)] = Diag("warn", "key_missing", None)

\* a record without notes has been dropped by the has-issue filter
C16_Witness ==
  /\ pc = "pull"
  /\ IsSome(cur)
  /\ ~IsSome(item.timeEntry.notes)
  /\ IsSome(item.userTz)
  /\ diags[Len(diags)] = Diag("warn", "key_missing", None)

\* C17: the export window starts at 00:00 of the latest Sunday on or before the
\* chosen day and ends one second before 00:00 of the Sunday after it, so the
\* chosen day lies inside the window
C17_ChosenDayInsideWindow ==
  IsSome(window) =>
    LET sunday == week.day - (week.day % 7)
    IN /\ Get(window).timeFloor = [day |-> sunday, second |-> 0]
       /\ Get(window).timeCeiling = [day |-> sunday + 6, second |-> 86399]

\* C17, the part about the shape of the window: it starts at 00:00 of a Sunday and
\* ends at 23:59:59 of the Saturday after it
WindowIsOneWeekFromSunday ==
  IsSome(window) =>
    /\ Get(window).timeFloor.day % 7 = 0
    /\ Get(window).timeFloor.second = 0
    /\ Get(window).timeCeiling = [day |-> Get(window).timeFloor.day + 6, second |-> 86399]

\* C18: canLogItemToJira checks not-closed, then user mismatch, then existing work
\* log; a record failing any check is rejected with exactly one diagnostic, that
\* of the first check it fails, and an accepted record gets no diagnostic
C18_FirstFailingCheckOnly ==
  [][pc = "canLog"
       => IF ~item.timeEntry.is_closed
          THEN pc' = "pull" /\ diags' = Append(diags, Diag("info", "not_closed", None))
          ELSE IF ExpectsOtherUser(item)
          THEN pc' = "pull" /\ diags' = Append(diags, Diag("warn", "unrecognized_user", None))
          ELSE IF NamedInWorkLogs(item)
          THEN pc' = "pull" /\ diags' = Append(diags, Diag("info", "already_logged", None))
          ELSE pc' = "writer" /\ diags' = diags]_vars

\* a closed record of another user that is also named in the work logs has been
\* rejected with the user diagnostic alone
C18_Witness ==
  /\ pc = "pull"
  /\ IsSome(cur)
  /\ IsSome(item.workLogs)
  /\ item.timeEntry.is_closed
  /\ ExpectsOtherUser(item)
  /\ NamedInWorkLogs(item)
  /\ diags = << Diag("warn", "unrecognized_user", None) >>

\* C19: a record of a user other than the expected acting user of the config is
\* rejected by canLogItemToJira and never reaches the writer; when the config
\* names no expected user, a closed record not named in the work logs is
\* accepted whoever its user is
C19_OtherUserDropped ==
  /\ (IsSome(cur) /\ ExpectsOtherUser(item))
       => /\ ~AtWriter
          /\ request.kind # "post"
          /\ pc = "canLog" => ~canLogItemToJira(item)
  /\ (/\ pc = "canLog"
      /\ ~IsSome(item.config.user.harvestUserId)
      /\ item.timeEntry.is_closed
      /\ ~NamedInWorkLogs(item))
       => canLogItemToJira(item)

\* a closed record of another user, not named in the work logs, has been rejected
C19_Witness ==
  /\ pc = "pull"
  /\ IsSome(cur)
  /\ IsSome(item.workLogs)
  /\ item.timeEntry.is_closed
  /\ ExpectsOtherUser(item)
  /\ ~NamedInWorkLogs(item)
  /\ diags[Len(diags)] = Diag("warn", "unrecognized_user", None)

\* C20: a failure of the timezone lookup, of the issue fetch or of the work-log
\* submission of a record never aborts the run
C20_PerRecordFailureNeverAborts ==
  [][(pc \in { "userTz_wait", "jiraIssue_wait", "post_wait" }) => (pc' # "aborted")]_vars

\* C21: in live mode a work-log creation request answered with a non-success
\* status is logged as an error and not retried: at most one POST is issued per
\* record, the record leaves the writer, and the next record is pulled
C21_PostFailureNotRetried ==
  [][/\ posts' <= 1
     /\ (pc = "post_wait" /\ outcome' = "non_ok")
          => /\ diags' = Append(diags, Diag("error", "post_failed", None))
             /\ request' = NoRequest
             /\ jiraWorkLogs' = jiraWorkLogs
             /\ pc' = "fold"
     /\ pc = "fold" => pc' = "pull"]_vars

\* after a failed submission the record has left the writer and the source is
\* asked for the next record of the page
C21_Witness ==
  /\ pc = "pull"
  /\ posts = 1
  /\ outcome = "non_ok"
  /\ diags[Len(diags)] = Diag("error", "post_failed", None)
  /\ pageEntries # << >>

\* C22: a listing request that fails (the fetch rejects or the body cannot be read
\* as a page) aborts the run: nothing is in flight afterwards, the record, the total
\* and the remote work logs are left as they were, and the aborted run takes no
\* further step
C22_PaginationFailsFast ==
  [][/\ (pc = "listing_wait" /\ outcome' = "rejected")
          => /\ pc' = "aborted"
             /\ request' = NoRequest
             /\ inFlight' = 0
             /\ cur' = cur
             /\ total' = total
             /\ jiraWorkLogs' = jiraWorkLogs
     /\ pc = "aborted" => (run = 1 /\ run' = 2)]_vars

\* the run was aborted by a failed listing request after the work log of the last
\* record it processed had been created
C22_Witness ==
  /\ run = 1
  /\ pc = "aborted"
  /\ outcome = "rejected"
  /\ listingRequests = 2
  /\ posts = 1
  /\ created[item.timeEntry.id] = 1

\* C23: an issue fetch answered with a non-success status is logged as an error and
\* leaves jiraIssue unset; the has-issue filter then drops the record without a
\* work-log listing or POST request, and the next record is pulled
C23_IssueFetchFailureDropsRecord ==
  [][/\ (pc = "jiraIssue_wait" /\ outcome' = "non_ok")
          => /\ diags' = diags \o << Diag("error", "issue_fetch_error", None),
                                     Diag("warn", "issue_not_found", None) >>
             /\ ~IsSome(Get(cur').jiraIssue)
             /\ request' = NoRequest
             /\ pc' = "filterJiraIssue"
     /\ (pc = "filterJiraIssue" /\ ~IsSome(item.jiraIssue))
          => /\ pc' = "pull"
             /\ request' = NoRequest]_vars

\* a record whose issue fetch failed has been dropped and the source is asked for
\* the next record of the page
C23_Witness ==
  /\ pc = "pull"
  /\ outcome = "non_ok"
  /\ ~IsSome(item.jiraIssue)
  /\ diags[Len(diags)] = Diag("warn", "issue_not_found", None)
  /\ pageEntries # << >>

\* C24: every record leaving enrichWithUserTz carries a userTz; after a lookup
\* that failed or matched no user it is "America/New_York", the memo stays
\* unset, and a record that then reaches the stage causes a lookup again
C24_FallbackNotMemoized ==
  [][/\ (pc = "userTz_wait" /\ outcome' \in { "non_ok", "empty" })
          => /\ Get(cur').userTz = Some(TZ_AMERICA_NEW_YORK)
             /\ timezone' = None
             /\ pc' = "jiraIssue"
     /\ (pc \in { "userTz", "userTz_wait" } /\ pc' = "jiraIssue")
          => IsSome(Get(cur').userTz)
     /\ (pc = "userTz" /\ ~tzResolved /\ UserTzAssertionsHold(Get(item.projectConfig)))
          => /\ timezone = None
             /\ request'.kind = "timezone"]_vars

\* the lookup for the second record of a page is in flight after the lookup for
\* the first one fell back to the default
C24_Witness ==
  /\ SinglePage(listing)
  /\ Len(yielded) = 2
  /\ pc = "userTz_wait"
  /\ tzLookups = 2
  /\ timezone = None

\* C25: when the work-log listing of a resolved issue was read without failure,
\* the workLogs attached to the record are all the work logs of the issue, in
\* order, however many pages the listing has
C25_AllWorkLogsAttached ==
  (pc = "canLog" /\ outcome = "ok")
    => Get(item.workLogs) = jiraWorkLogs[Get(item.jiraIssue).key]

\* C26: for every entry id the comment that logTimeEntriesToJira builds for it
\* makes hasExistingWorkLog true for that id once it stands among an issue's work
\* logs: checked for every id next to a work log without comment, for the comment
\* of a POST in flight, and for the issue's work logs right after the POST stored it
C26_WriterAndScanInLockstep ==
  /\ (run = 1 /\ pc = "source")
       => \A id \in EntryIds :
            hasExistingWorkLog(<< WorkLogNoComment, RequestComment(id) >>, id)
  /\ request.kind = "post"
       => hasExistingWorkLog(<< RequestComment(request.harvestId) >>, request.harvestId)
  /\ (pc = "fold" /\ posts = 1 /\ outcome = "ok")
       => hasExistingWorkLog(jiraWorkLogs[Get(item.jiraIssue).key], item.timeEntry.id)

\* the second run has rejected, as already logged, an entry whose work log the
\* first run created
C26_Witness ==
  /\ run = 2
  /\ pc = "pull"
  /\ IsSome(cur)
  /\ created[item.timeEntry.id] = 1
  /\ diags[Len(diags)] = Diag("info", "already_logged", None)

\* C27: the projectConfig of a record is the first section of config.projects, in
\* order, whose harvestId is the entry's project id, and every Jira request made
\* for the record goes to that section's site
C27_FirstSectionWins ==
  (IsSome(cur) /\ IsSome(item.projectConfig))
    => LET projects == item.config.projects
           first == CHOOSE k \in 1..Len(projects) :
                      /\ projects[k].harvestId = item.timeEntry.project.id
                      /\ \A j \in 1..(k - 1) :
                           projects[j].harvestId # item.timeEntry.project.id
       IN /\ Get(item.projectConfig) = projects[first]
          /\ request.kind \in { "timezone", "issue", "worklogs", "post" }
               => request.domain = projects[first].atlassianDomain

\* a work log is being posted for an entry of project 10 under the config that
\* has two sections for project 10
C27_Witness ==
  /\ config = ConfigAnyUser
  /\ request.kind = "post"
  /\ item.timeEntry.project.id = 10
  /\ request.domain = ProjectF.atlassianDomain

\* C28: inside the stages a record only moves forward (it stays in place only
\* while the pages of its work-log listing are read), it is always the record the
\* source yielded last, and after the fold it is gone: what leaves the writer is
\* a subsequence of what the source yielded, in order and without repetition
C28_EachStageAtMostOnce ==
  [][/\ (pc \in StagePositions /\ pc' \in StagePositions)
          => /\ \/ Rank(pc) < Rank(pc')
                \/ pc = "workLogs_wait" /\ pc' = "workLogs_wait"
             /\ Get(cur').timeEntry = item.timeEntry
     /\ (pc' \in StagePositions /\ Len(yielded') < MaxYielded)
          => Get(cur').timeEntry.id = yielded'[Len(yielded')]
     /\ pc = "fold" => pc' = "pull"]_vars

\* the third record of a page is being folded after an earlier one was folded
C28_Witness ==
  /\ SinglePage(listing)
  /\ Len(yielded) = 3
  /\ pc = "fold"
  /\ total > 0

\* C29: while a record is inside the stages its timeEntry and config never change,
\* a field once attached keeps its value, and a field changes only in the stage
\* that attaches it
C29_EnrichmentAppendOnly ==
  [][(pc \in StagePositions)
       => /\ Get(cur').timeEntry = item.timeEntry
          /\ Get(cur').config = item.config
          /\ \A f \in EnrichedFields :
               /\ IsSome(item[f]) => Get(cur')[f] = item[f]
               /\ Get(cur')[f] # item[f] => pc \in PositionsOf(f)]_vars

\* a record stands before the writer with all four fields attached
C29_Witness ==
  /\ pc = "writer"
  /\ \A f \in EnrichedFields : IsSome(item[f])
  /\ Get(item.workLogs) # << >>

\* C30: an entry whose work-log submission failed adds nothing to the total
C30_FailedSubmissionNotCounted ==
  [][(pc = "fold" /\ posts = 1 /\ outcome = "non_ok") => total' = total]_vars

----------------------------------------------------------------------------
\* C31: every work-log POST is issued for the record in hand, and that record's
\* entry is closed, its user is accepted by the config, its project id matched a
\* section, the key of the POST is a key found in its notes whose issue fetch
\* succeeded, and no text of its fetched work logs contains the entry id; the
\* remote work logs change only by the answer to a POST.
C31_PostOnlyForEligibleRecord ==
  [][/\ (request'.kind = "post") =>
          LET it == Get(cur')
          IN /\ request'.harvestId = it.timeEntry.id
             /\ it.timeEntry.is_closed
             /\ ~UserMismatch(it)
             /\ IsSome(it.projectConfig)
             /\ \E i \in 1..Len(config.projects) :
                   /\ config.projects[i].harvestId = it.timeEntry.project.id
                   /\ Get(it.projectConfig) = config.projects[i]
             /\ IsSome(it.jiraIssue)
             /\ request'.key = Get(it.jiraIssue).key
             /\ \E m \in 1..Len(JiraKeyMatches(it.timeEntry.notes,
                                           Get(Get(it.projectConfig).jiraProjectKey))) :
                   JiraKeyMatches(it.timeEntry.notes,
                                  Get(Get(it.projectConfig).jiraProjectKey))[m] = request'.key
             /\ IsSome(it.workLogs)
             /\ ~hasExistingWorkLog(Get(it.workLogs), it.timeEntry.id)
     /\ (jiraWorkLogs' # jiraWorkLogs) =>
          /\ request.kind = "post"
          /\ jiraWorkLogs' = [jiraWorkLogs EXCEPT
                                ![request.key] = Append(@, RequestComment(request.harvestId))]
    ]_vars

\* a POST for entry 2 (two keys in its notes) is in flight while the issue holds a
\* work log that does not name it
C31_Witness ==
  /\ request.kind = "post"
  /\ pc = "post_wait"
  /\ item.timeEntry.id = 2
  /\ Get(item.workLogs) # << >>
  /\ IsSome(config.user.harvestUserId)

----------------------------------------------------------------------------
\* a work log that the writer created for the entry with this id
CreatedFor(workLog, harvestId) == workLog = RequestComment(harvestId)

\* C32: a record is rejected as already logged only when one of its issue's work
\* logs was created for its own entry id; a work log created for another entry
\* (one whose id contains this id as a digit substring, say) does not get it skipped.
C32_RejectedOnlyForOwnWorkLog ==
  (pc = "canLog" /\ CanLogVerdict(item) = "already_logged")
    => \E i \in 1..Len(Get(item.workLogs)) :
         CreatedFor(Get(item.workLogs)[i], item.timeEntry.id)

----------------------------------------------------------------------------
\* C33: when a work-log listing request is answered with a non-success status, the
\* record is neither dropped nor is the run aborted: paging stops, the record
\* reaches the filter with the work logs collected so far as its workLogs (none,
\* when the first request failed), and the filter does not find it a duplicate.
C33_WorkLogFailureYieldsPartial ==
  [][/\ (pc = "workLogs_wait" /\ outcome' = "non_ok") =>
          /\ pc' = "canLog"
          /\ request' = NoRequest
          /\ Get(cur').timeEntry = item.timeEntry
          /\ Get(cur').workLogs = Some(allWorkLogs)
          /\ (request.startAt = 0 => Get(cur').workLogs = Some(<< >>))
     /\ (pc = "canLog" /\ outcome = "non_ok") =>
          /\ CanLogVerdict(item) # "already_logged"
          /\ dupSeen' = dupSeen
          /\ (item.timeEntry.is_closed /\ ~UserMismatch(item)) => pc' = "writer"
    ]_vars

\* the record of entry 1 is at the writer after its work-log listing failed, while
\* the issue holds the work log created for entry 1
C33_Witness ==
  /\ pc = "writer"
  /\ outcome = "non_ok"
  /\ item.timeEntry.id = 1
  /\ item.workLogs = Some(<< >>)
  /\ hasExistingWorkLog(jiraWorkLogs[Get(item.jiraIssue).key], 1)

----------------------------------------------------------------------------
\* C34: the paging loop over an issue's work logs ends: it starts at startAt 0,
\* and every answer either ends the loop or is followed by a request with a
\* larger startAt that still lies inside the collection, so no request is repeated
\* and their number is bounded by the size of the collection.
C34_WorkLogPagingTerminates ==
  [][/\ (pc = "workLogs") => (pc' = "workLogs_wait" /\ request'.startAt = 0)
     /\ (pc = "workLogs_wait") =>
          \/ pc' \in { "canLog", "aborted" } /\ request' = NoRequest
          \/ /\ pc' = "workLogs_wait"
             /\ request'.key = request.key
             /\ request'.startAt > request.startAt
             /\ request'.startAt < Len(jiraWorkLogs[request.key])
    ]_vars

\* the loop has ended for an issue whose collection is longer than one page
C34_Witness ==
  /\ pc = "canLog"
  /\ outcome = "ok"
  /\ request = NoRequest
  /\ Len(jiraWorkLogs[Get(item.jiraIssue).key]) > WorkLogPageSize
  /\ Len(Get(item.workLogs)) = WorkLogPageSize

----------------------------------------------------------------------------
\* C35: the memoized timezone belongs to the run, not to a project: once a lookup
\* of the run has succeeded the value is never replaced, and every later record
\* leaves enrichWithUserTz with that value and without a lookup, whichever Jira
\* site its project section names.
C35_MemoSharedAcrossProjects ==
  [][/\ (tzResolved /\ tzResolved') => (IsSome(timezone) /\ timezone' = timezone)
     /\ (tzResolved /\ pc = "userTz" /\ UserTzAssertionsHold(Get(item.projectConfig))) =>
          /\ pc' = "jiraIssue"
          /\ Get(cur').userTz = timezone
          /\ request' = NoRequest
          /\ tzLookups' = tzLookups
    ]_vars

\* a record of the project on the second site carries the time zone that the first
\* site reported, after a single lookup
C35_Witness ==
  /\ pc = "jiraIssue"
  /\ Get(item.projectConfig).atlassianDomain = "postc"
  /\ item.userTz = Some(RemoteTimeZone("lwd"))
  /\ RemoteTimeZone("postc") # RemoteTimeZone("lwd")
  /\ tzLookups = 1

----------------------------------------------------------------------------
\* C36: a record whose matched section lacks jiraProjectKey or
\* atlassianAccountEmail ends the run in enrichWithUserTz: no request is made for
\* it, and after the abort nothing more happens in that run, so the records
\* behind it are not processed.
C36_AssertionFailureAbortsRun ==
  [][/\ (pc = "userTz" /\ ~UserTzAssertionsHold(Get(item.projectConfig))) =>
          /\ pc' = "aborted"
          /\ request' = NoRequest
          /\ cur' = cur
          /\ pageEntries' = pageEntries
          /\ yielded' = yielded
          /\ jiraWorkLogs' = jiraWorkLogs
     /\ (pc = "aborted") => (run' # run /\ yielded' = << >>)
    ]_vars

\* the run ended at a record whose section has no account e-mail, after a
\* timezone was memoized and with an entry of the page still unprocessed
C36_Witness ==
  /\ pc = "aborted"
  /\ run = 1
  /\ outcome # "rejected"
  /\ IsSome(item.projectConfig)
  /\ ~IsSome(Get(item.projectConfig).atlassianAccountEmail)
  /\ IsSome(timezone)
  /\ pageEntries # << >>

----------------------------------------------------------------------------
\* C37: paging is lazy: a listing request is issued only when no entry of the
\* current page is left to yield, the record in hand has left the pipeline
\* (dropped by a filter or folded after the writer) and no request is open; a
\* listing request that fails leaves the remote work logs as they were.
C37_PagingIsLazy ==
  [][/\ (request'.kind = "listing" /\ request.kind # "listing") =>
          /\ pageEntries = << >>
          /\ pc \in { "source", "pull" }
          /\ request = NoRequest
          /\ inFlight = 0
          /\ cur' = cur
     /\ (pc = "listing_wait" /\ outcome' = "rejected") =>
          /\ jiraWorkLogs' = jiraWorkLogs
          /\ created' = created
    ]_vars

\* the second listing request of a two-page listing failed after the work logs of
\* both entries of the first page had been created
C37_Witness ==
  /\ Len(listing) = 2
  /\ pc = "aborted"
  /\ outcome = "rejected"
  /\ listingRequests = 2
  /\ created[1] = 1
  /\ created[12] = 1
  /\ jiraWorkLogs[KeyF1] = << RequestComment(1), RequestComment(12) >>
====
